---- MODULE Spec2Model ----
(***************************************************************************)
(* A model of the Home Library API (src/api): the relational store the     *)
(* handlers read and write (profiles, branches, books, copies, loans), the *)
(* authentication dependencies of auth.py, and the request handlers of     *)
(* routers/loans.py, routers/copies.py, routers/branches.py,               *)
(* routers/books.py and routers/users.py.                                  *)
(*                                                                         *)
(* A handler is one action: it reads the store, decides its HTTP status in *)
(* the order of the code's checks, writes the store and leaves its         *)
(* response in `last`.  Deliver hands the response to the caller; a serial *)
(* caller sends its next request only then.  SpecConcurrent runs           *)
(* create_loan and return_loan as the sequence of their store calls, two   *)
(* requests interleaved.                                                   *)
(***************************************************************************)
EXTENDS Integers, Sequences, FiniteSets, TLC

VARIABLES profiles, branches, books, copies, loans, last, procs

store == <<profiles, branches, books, copies, loans>>
vars == <<profiles, branches, books, copies, loans, last, procs>>

(***************************************************************************)
(* Bounds of the model.                                                    *)
(***************************************************************************)
MaxLoans == 2
MaxCopies == 3
MaxBooks == 2

None == "None"

(***************************************************************************)
(* Python values.                                                          *)
(***************************************************************************)
\* `if x:` / `if not x:` on an Optional[str]: None and "" are falsy.
Truthy(v) == v /= None /\ v /= ""

\* A null or empty isbn: the empty string of characters.
NoIsbn == <<>>

\* A calendar date.
Date(y, m, d) == [y |-> y, m |-> m, d |-> d]

Digit(n) == 48 + (n % 10)

\* str(date) == date.isoformat(): "%04d-%02d-%02d", as character codes.
DateStr(dt) ==
    << Digit(dt.y \div 1000), Digit(dt.y \div 100), Digit(dt.y \div 10), Digit(dt.y),
       45, Digit(dt.m \div 10), Digit(dt.m),
       45, Digit(dt.d \div 10), Digit(dt.d) >>

\* Python's `<` on two str values: lexicographic on the code points.
RECURSIVE StrLess(_, _)
StrLess(a, b) ==
    IF b = <<>> THEN FALSE
    ELSE IF a = <<>> THEN TRUE
    ELSE IF Head(a) /= Head(b) THEN Head(a) < Head(b)
    ELSE StrLess(Tail(a), Tail(b))

(***************************************************************************)
(* The sets the requests are drawn from.                                   *)
(***************************************************************************)
Subjects == {"u1", "u2", "u3", "u4"}
Dates == {Date(2024, 9, 30), Date(2024, 10, 1)}

\* An Authorization header: absent, or <<scheme, token>>.
NoHeader == <<>>
Bearer(token) == <<"Bearer", token>>

(***************************************************************************)
(* auth.py                                                                 *)
(***************************************************************************)
Anonymous == [id |-> None, role |-> None]

\* supabase.auth.get_user(token): the verifier knows the subjects' tokens, answers
\* without a user for "void" and raises for anything else.
VerifierRaises(token) == token \notin Subjects \cup {"void"}
VerifiedUser(token) == IF token \in Subjects THEN token ELSE None

\* The role read from the subject's profile row, "borrower" when there is none.
ProfileRole(id) ==
    IF id \in DOMAIN profiles THEN profiles[id].role ELSE "borrower"

\* get_current_user: [err, user]; err = 0 when it returns.  The profile read
\* is the one that answers; Resolve below adds the read that raises.
get_current_user(authorization) ==
    IF authorization = NoHeader THEN [err |-> 0, user |-> Anonymous]
    ELSE IF authorization[1] /= "Bearer" THEN [err |-> 401, user |-> Anonymous]
    ELSE IF VerifierRaises(authorization[2]) THEN [err |-> 401, user |-> Anonymous]
    ELSE IF VerifiedUser(authorization[2]) /= None
         THEN [err |-> 0,
               user |-> [id |-> VerifiedUser(authorization[2]),
                         role |-> ProfileRole(VerifiedUser(authorization[2]))]]
    ELSE [err |-> 0, user |-> Anonymous]

\* The dependency without its check for an absent user.
require_auth_optional(authorization) == get_current_user(authorization)

require_auth(authorization) ==
    LET r == get_current_user(authorization)
    IN  IF r.err /= 0 THEN r
        ELSE IF r.user = Anonymous THEN [err |-> 401, user |-> Anonymous]
        ELSE r

\* The dependency without its role check.
require_branch_owner_any_role(authorization) == require_auth(authorization)

require_branch_owner(authorization) ==
    LET r == require_auth(authorization)
    IN  IF r.err /= 0 THEN r
        ELSE IF r.user.role \notin {"branch_owner", "admin"}
             THEN [err |-> 403, user |-> r.user]
        ELSE r

require_admin(authorization) ==
    LET r == require_auth(authorization)
    IN  IF r.err /= 0 THEN r
        ELSE IF r.user.role /= "admin" THEN [err |-> 403, user |-> r.user]
        ELSE r

(***************************************************************************)
(* The store.  loans is the table in insertion order (borrowed_at          *)
(* defaults to the time of the insert); a loan's id is kept in the row.    *)
(***************************************************************************)
LoanIds == {loans[i].id : i \in DOMAIN loans}
LoanRow(id) == loans[CHOOSE i \in DOMAIN loans : loans[i].id = id]

RECURSIVE MaxOf(_)
MaxOf(S) == IF S = {} THEN 0
            ELSE LET x == CHOOSE x \in S : TRUE
                     m == MaxOf(S \ {x})
                 IN  IF x > m THEN x ELSE m

NewLoanId == MaxOf(LoanIds) + 1

\* The query without its is_("returned_at", "null"): every loan of the copy.
LoansOfCopyEver(copy_id) == SelectSeq(loans, LAMBDA l : l.copy_id = copy_id)

\* select("id").eq("copy_id", c).is_("returned_at", "null"): the rows, in table order.
OpenLoansOf(copy_id) ==
    SelectSeq(loans, LAMBDA l : l.copy_id = copy_id /\ l.returned_at = None)

\* The owner_id of the branch a copy row is joined to.
CopyOwner(copy_id) == branches[copies[copy_id].branch_id].owner_id
LoanOwner(l) == CopyOwner(l.copy_id)

(***************************************************************************)
(* Responses.                                                              *)
(***************************************************************************)
Idle == [op |-> "idle", user |-> Anonymous, args |-> <<>>, status |-> 0, result |-> <<>>]

Response(op, user, args, status, result) ==
    [op |-> op, user |-> user, args |-> args, status |-> status, result |-> result]

\* The response reaches the caller.
Deliver ==
    /\ last /= Idle
    /\ last' = Idle
    /\ UNCHANGED <<store, procs>>

(***************************************************************************)
(* routers/loans.py: create_loan                                           *)
(***************************************************************************)
\* create_loan without its "already on loan" check.
CreateLoanStatusUnchecked(auth, copy_id, borrower_id) ==
    IF auth.err /= 0 THEN auth.err
    ELSE IF copy_id \notin DOMAIN copies THEN 404
    ELSE IF CopyOwner(copy_id) /= auth.user.id /\ auth.user.role /= "admin" THEN 403
    ELSE IF borrower_id \notin DOMAIN profiles THEN 404
    ELSE 200

\* create_loan verifying the borrower before it looks for an open loan.
CreateLoanStatusBorrowerFirst(auth, copy_id, borrower_id) ==
    IF auth.err /= 0 THEN auth.err
    ELSE IF copy_id \notin DOMAIN copies THEN 404
    ELSE IF CopyOwner(copy_id) /= auth.user.id /\ auth.user.role /= "admin" THEN 403
    ELSE IF borrower_id \notin DOMAIN profiles THEN 404
    ELSE IF OpenLoansOf(copy_id) /= <<>> THEN 409
    ELSE 200

\* The status create_loan ends with, in the order of its checks.
CreateLoanStatus(auth, copy_id, borrower_id) ==
    IF auth.err /= 0 THEN auth.err
    ELSE IF copy_id \notin DOMAIN copies THEN 404
    ELSE IF CopyOwner(copy_id) /= auth.user.id /\ auth.user.role /= "admin" THEN 403
    ELSE IF OpenLoansOf(copy_id) /= <<>> THEN 409
    ELSE IF borrower_id \notin DOMAIN profiles THEN 404
    ELSE 200

NewLoan(copy_id, borrower_id, due_date, notes) ==
    [id |-> NewLoanId, copy_id |-> copy_id, borrower_id |-> borrower_id,
     due_date |-> DateStr(due_date), returned_at |-> None, notes |-> notes]

CreateLoan(authorization, copy_id, borrower_id, due_date, notes) ==
    LET auth == require_branch_owner(authorization)
        status == CreateLoanStatus(auth, copy_id, borrower_id)
        row == NewLoan(copy_id, borrower_id, due_date, notes)
        args == [copy_id |-> copy_id, borrower_id |-> borrower_id,
                 due_date |-> due_date, notes |-> notes]
    IN  /\ last = Idle
        /\ status = 200 => Len(loans) < MaxLoans
        /\ loans' = IF status = 200 THEN Append(loans, row) ELSE loans
        /\ last' = Response("create_loan", auth.user, args, status,
                            IF status = 200 THEN <<row>> ELSE <<>>)
        /\ UNCHANGED <<profiles, branches, books, copies, procs>>

(***************************************************************************)
(* routers/loans.py: return_loan                                           *)
(***************************************************************************)
\* return_loan without its "already returned" check.
ReturnLoanStatusUnchecked(auth, loan_id) ==
    IF auth.err /= 0 THEN auth.err
    ELSE IF loan_id \notin LoanIds THEN 404
    ELSE IF LoanOwner(LoanRow(loan_id)) /= auth.user.id /\ auth.user.role /= "admin" THEN 403
    ELSE 200

ReturnLoanStatus(auth, loan_id) ==
    IF auth.err /= 0 THEN auth.err
    ELSE IF loan_id \notin LoanIds THEN 404
    ELSE IF Truthy(LoanRow(loan_id).returned_at) THEN 400
    ELSE IF LoanOwner(LoanRow(loan_id)) /= auth.user.id /\ auth.user.role /= "admin" THEN 403
    ELSE 200

\* update(update_data).eq("id", loan_id): returned_at always, notes when truthy.
ReturnedRow(l, now, notes) ==
    [l EXCEPT !.returned_at = now,
              !.notes = IF Truthy(notes) THEN notes ELSE @]

\* The update addressed by the loan's copy instead of the loan's id.
UpdateLoanOfCopy(loan_id, now, notes) ==
    [i \in DOMAIN loans |->
        IF loans[i].copy_id = LoanRow(loan_id).copy_id
        THEN ReturnedRow(loans[i], now, notes) ELSE loans[i]]

UpdateLoan(loan_id, now, notes) ==
    [i \in DOMAIN loans |->
        IF loans[i].id = loan_id THEN ReturnedRow(loans[i], now, notes) ELSE loans[i]]

ReturnLoan(authorization, loan_id, notes, now) ==
    LET auth == require_branch_owner(authorization)
        status == ReturnLoanStatus(auth, loan_id)
        args == [loan_id |-> loan_id, notes |-> notes, now |-> now]
    IN  /\ last = Idle
        /\ loans' = IF status = 200 THEN UpdateLoan(loan_id, now, notes) ELSE loans
        /\ last' = Response("return_loan", auth.user, args, status,
                            IF status = 200
                            THEN <<ReturnedRow(LoanRow(loan_id), now, notes)>> ELSE <<>>)
        /\ UNCHANGED <<profiles, branches, books, copies, procs>>

(***************************************************************************)
(* routers/loans.py: list_loans                                            *)
(***************************************************************************)
RECURSIVE Reverse(_)
Reverse(s) == IF s = <<>> THEN <<>> ELSE Append(Reverse(Tail(s)), Head(s))

\* order("borrowed_at", desc=True): the newest insert first.
NewestFirst == Reverse(loans)

\* range(offset, offset + limit - 1) on the ordered rows.
Range(rows, offset, limit) ==
    SubSeq(rows, offset + 1,
           IF offset + limit < Len(rows) THEN offset + limit ELSE Len(rows))

\* The query taking the borrower_id parameter for every role.
QueryMatchesParameter(user, borrower_id, l) ==
    IF Truthy(borrower_id) THEN l.borrower_id = borrower_id
    ELSE user.role = "borrower" => l.borrower_id = user.id

\* The .eq("borrower_id", ...) the role puts on the query.
QueryMatches(user, borrower_id, l) ==
    IF user.role = "borrower" THEN l.borrower_id = user.id
    ELSE IF Truthy(borrower_id) THEN l.borrower_id = borrower_id
    ELSE TRUE

\* response.data: the page the store returns.
FetchedPage(user, borrower_id, offset, limit) ==
    Range(SelectSeq(NewestFirst, LAMBDA l : QueryMatches(user, borrower_id, l)),
          offset, limit)

\* The owner filter put on every role but borrower.
OwnerFilterNonBorrower(user, rows) ==
    IF user.role /= "borrower"
    THEN SelectSeq(rows, LAMBDA l : LoanOwner(l) = user.id)
    ELSE rows

\* "Filter by branch for branch owners".
OwnerFilter(user, rows) ==
    IF user.role = "branch_owner" /\ ~(user.role = "admin")
    THEN SelectSeq(rows, LAMBDA l : LoanOwner(l) = user.id)
    ELSE rows

\* "Filter by branch_id if specified".
BranchFilter(branch_id, rows) ==
    IF Truthy(branch_id)
    THEN SelectSeq(rows, LAMBDA l : copies[l.copy_id].branch_id = branch_id)
    ELSE rows

\* The overdue test with <= for <.
OverdueOrDueToday(l, today) ==
    l.returned_at = None /\ ~StrLess(DateStr(today), l.due_date)

\* l["returned_at"] is None and l["due_date"] < str(today)
Overdue(l, today) == l.returned_at = None /\ StrLess(l.due_date, DateStr(today))

\* What each value of the status parameter keeps.
StatusSelects(status, l, today) ==
    IF status = "active" THEN l.returned_at = None
    ELSE IF status = "overdue" THEN Overdue(l, today)
    ELSE IF status = "returned" THEN l.returned_at /= None
    ELSE TRUE

StatusFilter(status, today, rows) ==
    SelectSeq(rows, LAMBDA l : StatusSelects(status, l, today))

\* The rows list_loans has before it filters by status.
VisibleRows(user, q) ==
    BranchFilter(q.branch_id,
                 OwnerFilter(user, FetchedPage(user, q.borrower_id, q.offset, q.limit)))

ListLoans(authorization, q, today) ==
    LET auth == require_auth(authorization)
        args == [borrower_id |-> q.borrower_id, branch_id |-> q.branch_id,
                 status |-> q.status, limit |-> q.limit, offset |-> q.offset,
                 today |-> today]
    IN  /\ last = Idle
        /\ last' = Response("list_loans", auth.user, args,
                            IF auth.err /= 0 THEN auth.err ELSE 200,
                            IF auth.err /= 0 THEN <<>>
                            ELSE StatusFilter(q.status, today, VisibleRows(auth.user, q)))
        /\ UNCHANGED <<store, procs>>

(***************************************************************************)
(* routers/loans.py: get_loan                                              *)
(***************************************************************************)
\* get_loan's access check decided by the actor's role.
GetLoanAllowedByRole(user, l) ==
    \/ user.role = "borrower" /\ l.borrower_id = user.id
    \/ user.role = "branch_owner" /\ LoanOwner(l) = user.id
    \/ user.role = "admin"

\* is_borrower or is_branch_owner or is_admin
GetLoanAllowed(user, l) ==
    \/ l.borrower_id = user.id
    \/ LoanOwner(l) = user.id
    \/ user.role = "admin"

GetLoanStatus(auth, loan_id) ==
    IF auth.err /= 0 THEN auth.err
    ELSE IF loan_id \notin LoanIds THEN 404
    ELSE IF ~GetLoanAllowed(auth.user, LoanRow(loan_id)) THEN 403
    ELSE 200

GetLoan(authorization, loan_id) ==
    LET auth == require_auth(authorization)
        status == GetLoanStatus(auth, loan_id)
    IN  /\ last = Idle
        /\ last' = Response("get_loan", auth.user, [loan_id |-> loan_id], status,
                            IF status = 200 THEN <<LoanRow(loan_id)>> ELSE <<>>)
        /\ UNCHANGED <<store, procs>>

(***************************************************************************)
(* The requests of the serial lending specification.                       *)
(***************************************************************************)
Callers == {NoHeader, Bearer("u1"), Bearer("u2"), Bearer("u3")}
CopyArgs == {"c1", "c2", "c9"}
BorrowerArgs == {"u2", "u3", "u9"}
LoanArgs == (1 .. MaxLoans) \cup {MaxLoans + 1}
ReturnArgs == {[now |-> "t1", notes |-> None], [now |-> "t2", notes |-> "damaged"]}

create_loan ==
    \E a \in Callers, c \in CopyArgs, b \in BorrowerArgs, d \in Dates :
        CreateLoan(a, c, b, d, None)

return_loan ==
    \E a \in Callers, l \in LoanArgs, r \in ReturnArgs :
        ReturnLoan(a, l, r.notes, r.now)

(***************************************************************************)
(* The initial store: an admin, a branch owner and a borrower; u3, whose   *)
(* role is borrower, is the owner_id of branch b2.                         *)
(***************************************************************************)
Init ==
    /\ profiles = [u \in {"u1", "u2", "u3"} |->
                     [role |-> CASE u = "u1" -> "admin"
                                 [] u = "u2" -> "branch_owner"
                                 [] OTHER -> "borrower"]]
    /\ branches = [b \in {"b1", "b2"} |->
                     [owner_id |-> IF b = "b1" THEN "u2" ELSE "u3",
                      name |-> "Main", address |-> None]]
    /\ books = [k \in {"k1"} |-> [isbn |-> NoIsbn]]
    /\ copies = [c \in {"c1", "c2"} |->
                   [book_id |-> "k1", branch_id |-> IF c = "c1" THEN "b1" ELSE "b2",
                    condition |-> None, notes |-> None, added_by |-> "u1"]]
    /\ loans = <<>>
    /\ last = Idle
    /\ procs = <<>>

Next == create_loan \/ return_loan \/ Deliver

Spec == Init /\ [][Next]_vars

(***************************************************************************)
(* The read specification: the admin lends and takes back, and every       *)
(* caller lists and reads the loans.                                       *)
(***************************************************************************)
Queries ==
    [borrower_id : {None, "u2"}, branch_id : {None, "b1"},
     status : {None, "active", "overdue", "returned"},
     limit : {1, 50}, offset : {0, 1}]

lend ==
    \E c \in {"c1", "c2"}, b \in {"u2", "u3"}, d \in Dates :
        CreateLoan(Bearer("u1"), c, b, d, None)

take_back ==
    \E l \in 1 .. MaxLoans : ReturnLoan(Bearer("u1"), l, None, "t1")

list_loans ==
    \E a \in Callers \ {NoHeader}, q \in Queries, today \in Dates : ListLoans(a, q, today)

get_loan ==
    \E a \in Callers, l \in LoanArgs : GetLoan(a, l)

NextReads == lend \/ take_back \/ list_loans \/ get_loan \/ Deliver

SpecReads == Init /\ [][NextReads]_vars

(***************************************************************************)
(* services/isbn_lookup.py.  An ISBN is a string of characters; a null or  *)
(* empty isbn is the empty string.                                         *)
(***************************************************************************)
\* isbn.replace("-", "").replace(" ", "").strip()
CleanIsbn(isbn) == SelectSeq(isbn, LAMBDA ch : ch /= "-" /\ ch /= " ")

\* lookup_isbn: the metadata of the cleaned isbn when a catalog answers, or None.
lookup_isbn(isbn, found) ==
    IF found THEN <<[isbn |-> CleanIsbn(isbn)]>> ELSE <<>>

(***************************************************************************)
(* routers/copies.py: create_copy                                          *)
(***************************************************************************)
BookIdPool == <<"k1", "k2", "k3", "k4">>
CopyIdPool == <<"c1", "c2", "c3", "c4", "c5">>

\* The first id of a pool that no row of the table has.
FreshId(pool, used) ==
    pool[CHOOSE i \in DOMAIN pool :
            /\ pool[i] \notin used
            /\ \A j \in 1 .. (i - 1) : pool[j] \in used]

\* select("id").eq("isbn", copy.isbn): the first row, in the table's order.
BooksWithIsbn(isbn) == {k \in DOMAIN books : books[k].isbn = isbn}
FirstBook(ids) ==
    BookIdPool[CHOOSE i \in DOMAIN BookIdPool :
                  /\ BookIdPool[i] \in ids
                  /\ \A j \in 1 .. (i - 1) : BookIdPool[j] \notin ids]

\* The find-or-create block entered whenever an ISBN is provided.
NeedsBookForAnyIsbn(book_id, isbn) == isbn /= NoIsbn

\* "If no book_id but ISBN provided, find or create book".
NeedsBook(book_id, isbn) == ~Truthy(book_id) /\ isbn /= NoIsbn

\* Whether create_copy calls lookup_isbn, and whether it inserts a book.
LooksUp(book_id, isbn) == NeedsBook(book_id, isbn) /\ BooksWithIsbn(isbn) = {}
InsertsBook(book_id, isbn, found) ==
    LooksUp(book_id, isbn) /\ lookup_isbn(isbn, found) /= <<>>

\* book_id after the find-or-create block.
ResolvedBook(book_id, isbn, found) ==
    IF ~NeedsBook(book_id, isbn) THEN book_id
    ELSE IF BooksWithIsbn(isbn) /= {} THEN FirstBook(BooksWithIsbn(isbn))
    ELSE IF InsertsBook(book_id, isbn, found) THEN FreshId(BookIdPool, DOMAIN books)
    ELSE None

CreateCopyStatus(auth, book_id, branch_id, isbn, found) ==
    IF auth.err /= 0 THEN auth.err
    ELSE IF LooksUp(book_id, isbn) /\ lookup_isbn(isbn, found) = <<>> THEN 400
    ELSE IF ~Truthy(ResolvedBook(book_id, isbn, found)) THEN 400
    ELSE IF branch_id \notin DOMAIN branches THEN 404
    ELSE IF branches[branch_id].owner_id /= auth.user.id /\ auth.user.role /= "admin"
         THEN 403
    ELSE 200

NewCopy(user, book_id, branch_id, condition, notes) ==
    [book_id |-> book_id, branch_id |-> branch_id, condition |-> condition,
     notes |-> notes, added_by |-> user.id]

\* book_id, branch_id, isbn, condition, notes: the CopyCreate body; found:
\* whether the catalogs know the isbn.
CreateCopy(authorization, book_id, branch_id, isbn, condition, notes, found) ==
    LET auth == require_branch_owner(authorization)
        status == CreateCopyStatus(auth, book_id, branch_id, isbn, found)
        inserts == auth.err = 0 /\ InsertsBook(book_id, isbn, found)
        resolved == ResolvedBook(book_id, isbn, found)
        id == FreshId(CopyIdPool, DOMAIN copies)
    IN  /\ last = Idle
        /\ inserts => Cardinality(DOMAIN books) < MaxBooks
        /\ status = 200 => Cardinality(DOMAIN copies) < MaxCopies
        /\ books' = IF inserts
                    THEN [k \in DOMAIN books \cup {resolved} |->
                            IF k \in DOMAIN books THEN books[k]
                            ELSE lookup_isbn(isbn, found)[1]]
                    ELSE books
        /\ copies' = IF status = 200
                     THEN [x \in DOMAIN copies \cup {id} |->
                             IF x \in DOMAIN copies THEN copies[x]
                             ELSE NewCopy(auth.user, resolved, branch_id, condition, notes)]
                     ELSE copies
        /\ last' = Response("create_copy", auth.user,
                            [book_id |-> book_id, branch_id |-> branch_id, isbn |-> isbn,
                             condition |-> condition, notes |-> notes],
                            status, IF status = 200 THEN <<id>> ELSE <<>>)
        /\ UNCHANGED <<profiles, branches, loans, procs>>

(***************************************************************************)
(* routers/copies.py: update_copy, delete_copy                             *)
(***************************************************************************)
\* {k: v for k, v in update.model_dump().items() if v is not None}
UpdateData(update) == {k \in DOMAIN update : update[k] /= None}

Patched(row, update) ==
    [k \in DOMAIN row |-> IF k \in UpdateData(update) THEN update[k] ELSE row[k]]

UpdateCopyStatus(auth, copy_id, update) ==
    IF auth.err /= 0 THEN auth.err
    ELSE IF copy_id \notin DOMAIN copies THEN 404
    ELSE IF CopyOwner(copy_id) /= auth.user.id /\ auth.user.role /= "admin" THEN 403
    ELSE IF UpdateData(update) = {} THEN 400
    ELSE 200

UpdateCopy(authorization, copy_id, update) ==
    LET auth == require_branch_owner(authorization)
        status == UpdateCopyStatus(auth, copy_id, update)
    IN  /\ last = Idle
        /\ copies' = IF status = 200
                     THEN [copies EXCEPT ![copy_id] = Patched(@, update)]
                     ELSE copies
        /\ last' = Response("update_copy", auth.user,
                            [copy_id |-> copy_id, update |-> update], status, <<>>)
        /\ UNCHANGED <<profiles, branches, books, loans, procs>>

DeleteCopyStatus(auth, copy_id) ==
    IF auth.err /= 0 THEN auth.err
    ELSE IF copy_id \notin DOMAIN copies THEN 404
    ELSE IF CopyOwner(copy_id) /= auth.user.id /\ auth.user.role /= "admin" THEN 403
    ELSE 200

\* delete().eq("id", copy_id); the copy's loans go with the row (the foreign keys
\* of this store cascade, as delete_book's comment says of a book's copies).
DeleteCopy(authorization, copy_id) ==
    LET auth == require_branch_owner(authorization)
        status == DeleteCopyStatus(auth, copy_id)
    IN  /\ last = Idle
        /\ copies' = IF status = 200
                     THEN [x \in DOMAIN copies \ {copy_id} |-> copies[x]]
                     ELSE copies
        /\ loans' = IF status = 200
                    THEN SelectSeq(loans, LAMBDA l : l.copy_id /= copy_id)
                    ELSE loans
        /\ last' = Response("delete_copy", auth.user, [copy_id |-> copy_id], status, <<>>)
        /\ UNCHANGED <<profiles, branches, books, procs>>

(***************************************************************************)
(* routers/branches.py: update_branch                                      *)
(***************************************************************************)
UpdateBranchStatus(auth, branch_id, update) ==
    IF auth.err /= 0 THEN auth.err
    ELSE IF branch_id \notin DOMAIN branches THEN 404
    ELSE IF branches[branch_id].owner_id /= auth.user.id /\ auth.user.role /= "admin"
         THEN 403
    ELSE IF UpdateData(update) = {} THEN 400
    ELSE 200

UpdateBranch(authorization, branch_id, update) ==
    LET auth == require_branch_owner(authorization)
        status == UpdateBranchStatus(auth, branch_id, update)
    IN  /\ last = Idle
        /\ branches' = IF status = 200
                       THEN [branches EXCEPT ![branch_id] = Patched(@, update)]
                       ELSE branches
        /\ last' = Response("update_branch", auth.user,
                            [branch_id |-> branch_id, update |-> update], status, <<>>)
        /\ UNCHANGED <<profiles, books, copies, loans, procs>>

(***************************************************************************)
(* The catalog specification: the resource-scoped writes, one at a time,   *)
(* on a library of one branch.  Its owner_id is u2, whose role is          *)
(* branch_owner or borrower; u1 is an admin and u3 a branch_owner who owns *)
(* no branch.                                                              *)
(***************************************************************************)
Staff == {Bearer("u1"), Bearer("u2"), Bearer("u3")}

update_branch ==
    \E a \in Staff, b \in {"b1", "b9"},
       u \in {[name |-> None, address |-> None], [name |-> "East", address |-> None]} :
        UpdateBranch(a, b, u)

create_copy ==
    \E a \in Staff, b \in {"b1", "b9"}, k \in {None, "k1"},
       i \in {NoIsbn, <<"9", "7">>}, found \in BOOLEAN :
        CreateCopy(a, k, b, i, None, None, found)

update_copy ==
    \E a \in Staff, c \in {"c1", "c9"},
       u \in {[condition |-> None, notes |-> None], [condition |-> "worn", notes |-> None]} :
        UpdateCopy(a, c, u)

delete_copy ==
    \E a \in Staff, c \in {"c1", "c9"} : DeleteCopy(a, c)

check_out ==
    \E a \in Staff, c \in {"c1", "c9"} :
        CreateLoan(a, c, "u3", Date(2024, 10, 1), None)

check_in ==
    \E a \in Staff, l \in LoanArgs : ReturnLoan(a, l, None, "t1")

InitCatalog ==
    /\ \E r \in {"branch_owner", "borrower"} :
          profiles = [u \in {"u1", "u2", "u3"} |->
                        [role |-> CASE u = "u1" -> "admin"
                                    [] u = "u2" -> r
                                    [] OTHER -> "branch_owner"]]
    /\ branches = [b \in {"b1"} |-> [owner_id |-> "u2", name |-> "Main", address |-> None]]
    /\ books = [k \in {"k1"} |-> [isbn |-> NoIsbn]]
    /\ copies = [c \in {"c1"} |->
                   [book_id |-> "k1", branch_id |-> "b1",
                    condition |-> None, notes |-> None, added_by |-> "u1"]]
    /\ loans = <<>>
    /\ last = Idle
    /\ procs = <<>>

NextCatalog ==
    \/ update_branch \/ create_copy \/ update_copy \/ delete_copy
    \/ check_out \/ check_in \/ Deliver

SpecCatalog == InitCatalog /\ [][NextCatalog]_vars

(***************************************************************************)
(* Concurrent requests.  Each request is a process that makes the          *)
(* handler's store calls one at a time, in the handler's order; between    *)
(* two calls of one request the other request may run.                     *)
(***************************************************************************)
Procs == {1, 2}

IdleProc == [op |-> "idle", pc |-> "idle", user |-> Anonymous, args |-> <<>>, status |-> 0]

Done(pr, status) == [pr EXCEPT !.pc = "done", !.status = status]

Goto(pr, pc) == [pr EXCEPT !.pc = pc]

\* The dependency require_branch_owner resolves before the handler body runs.
Accept(p, op, authorization, args) ==
    LET auth == require_branch_owner(authorization)
        pr == [op |-> op, pc |-> "begin", user |-> auth.user, args |-> args, status |-> 0]
    IN  /\ procs[p].pc = "idle"
        /\ procs' = [procs EXCEPT ![p] = IF auth.err /= 0 THEN Done(pr, auth.err) ELSE pr]
        /\ UNCHANGED <<store, last>>

CreateLoanBegin(p) ==
    \E a \in {Bearer("u1"), Bearer("u2"), Bearer("u3")}, c \in {"c1", "c2"},
       b \in {"u3", "u9"}, d \in {Date(2024, 10, 1)} :
        Accept(p, "create_loan", a,
               [copy_id |-> c, borrower_id |-> b, due_date |-> d, notes |-> None])

\* "Verify copy exists and get branch info", "Verify user owns the branch".
CreateLoanReadCopy(p) ==
    LET pr == procs[p]
    IN  /\ pr.op = "create_loan" /\ pr.pc = "begin"
        /\ procs' = [procs EXCEPT ![p] =
              IF pr.args.copy_id \notin DOMAIN copies THEN Done(pr, 404)
              ELSE IF CopyOwner(pr.args.copy_id) /= pr.user.id /\ pr.user.role /= "admin"
                   THEN Done(pr, 403)
              ELSE Goto(pr, "check")]
        /\ UNCHANGED <<store, last>>

\* "Check if copy is already on loan".
CreateLoanReadOpen(p) ==
    LET pr == procs[p]
    IN  /\ pr.op = "create_loan" /\ pr.pc = "check"
        /\ procs' = [procs EXCEPT ![p] =
              IF OpenLoansOf(pr.args.copy_id) /= <<>> THEN Done(pr, 409)
              ELSE Goto(pr, "borrower")]
        /\ UNCHANGED <<store, last>>

\* "Verify borrower exists".
CreateLoanReadBorrower(p) ==
    LET pr == procs[p]
    IN  /\ pr.op = "create_loan" /\ pr.pc = "borrower"
        /\ procs' = [procs EXCEPT ![p] =
              IF pr.args.borrower_id \notin DOMAIN profiles THEN Done(pr, 404)
              ELSE Goto(pr, "insert")]
        /\ UNCHANGED <<store, last>>

\* "Create the loan".
CreateLoanInsert(p) ==
    LET pr == procs[p]
    IN  /\ pr.op = "create_loan" /\ pr.pc = "insert"
        /\ Len(loans) < MaxLoans
        /\ loans' = Append(loans, NewLoan(pr.args.copy_id, pr.args.borrower_id,
                                          pr.args.due_date, pr.args.notes))
        /\ procs' = [procs EXCEPT ![p] = Done(pr, 200)]
        /\ UNCHANGED <<profiles, branches, books, copies, last>>

\* The constraint of the loans table: a copy has at most one loan without
\* returned_at.  A store that enforces it refuses an insert for a copy that
\* has such a loan.
StoreRejectsInsert(copy_id) == OpenLoansOf(copy_id) /= <<>>

\* The store refuses the insert: execute() raises, create_loan has no except
\* clause, and global_exception_handler answers 500.
CreateLoanInsertRejected(p) ==
    LET pr == procs[p]
    IN  /\ pr.op = "create_loan" /\ pr.pc = "insert"
        /\ StoreRejectsInsert(pr.args.copy_id)
        /\ procs' = [procs EXCEPT ![p] = Done(pr, 500)]
        /\ UNCHANGED <<store, last>>

ReturnLoanBegin(p) ==
    \E a \in {Bearer("u1"), Bearer("u2")}, l \in 1 .. MaxLoans, r \in ReturnArgs :
        Accept(p, "return_loan", a, [loan_id |-> l, notes |-> r.notes, now |-> r.now])

\* "Get loan with branch info", the returned_at check and the ownership check.
ReturnLoanRead(p) ==
    LET pr == procs[p]
    IN  /\ pr.op = "return_loan" /\ pr.pc = "begin"
        /\ procs' = [procs EXCEPT ![p] =
              IF pr.args.loan_id \notin LoanIds THEN Done(pr, 404)
              ELSE IF Truthy(LoanRow(pr.args.loan_id).returned_at) THEN Done(pr, 400)
              ELSE IF /\ LoanOwner(LoanRow(pr.args.loan_id)) /= pr.user.id
                      /\ pr.user.role /= "admin"
                   THEN Done(pr, 403)
              ELSE Goto(pr, "update")]
        /\ UNCHANGED <<store, last>>

\* "Mark as returned".
ReturnLoanUpdate(p) ==
    LET pr == procs[p]
    IN  /\ pr.op = "return_loan" /\ pr.pc = "update"
        /\ loans' = UpdateLoan(pr.args.loan_id, pr.args.now, pr.args.notes)
        /\ procs' = [procs EXCEPT ![p] = Done(pr, 200)]
        /\ UNCHANGED <<profiles, branches, books, copies, last>>

\* The response leaves; the worker takes the next request.
Respond(p) ==
    /\ procs[p].pc = "done"
    /\ procs' = [procs EXCEPT ![p] = IdleProc]
    /\ UNCHANGED <<store, last>>

InitConcurrent ==
    /\ Init!1 /\ Init!2 /\ Init!3 /\ Init!4 /\ Init!5 /\ Init!6
    /\ procs = [p \in Procs |-> IdleProc]

NextConcurrent ==
    \E p \in Procs :
        \/ CreateLoanBegin(p)
        \/ CreateLoanReadCopy(p)
        \/ CreateLoanReadOpen(p)
        \/ CreateLoanReadBorrower(p)
        \/ CreateLoanInsert(p)
        \/ CreateLoanInsertRejected(p)
        \/ ReturnLoanBegin(p)
        \/ ReturnLoanRead(p)
        \/ ReturnLoanUpdate(p)
        \/ Respond(p)

SpecConcurrent == InitConcurrent /\ [][NextConcurrent]_vars

(***************************************************************************)
(* auth.py: get_current_user as a request of its own.  The profile is read *)
(* with .single(); on a table with no row for the subject the client       *)
(* either answers without data or raises, and which of the two is not      *)
(* decided by this repository: single_raises is that outcome.              *)
(***************************************************************************)
ResolveStatus(authorization, single_raises) ==
    LET r == get_current_user(authorization)
    IN  IF r.err /= 0 THEN r.err
        ELSE IF r.user /= Anonymous /\ r.user.id \notin DOMAIN profiles /\ single_raises
             THEN 401
        ELSE 200

Resolve(authorization, single_raises) ==
    LET r == get_current_user(authorization)
        status == ResolveStatus(authorization, single_raises)
    IN  /\ last = Idle
        /\ last' = Response("get_current_user",
                            IF status = 200 THEN r.user ELSE Anonymous,
                            [authorization |-> authorization], status, <<>>)
        /\ UNCHANGED <<store, procs>>

(***************************************************************************)
(* routers/users.py: update_user_role                                      *)
(***************************************************************************)
Roles == {"admin", "branch_owner", "borrower"}

\* The handler without its check of the role value.
UpdateUserRoleStatusUnvalidated(auth, user_id, role) ==
    IF auth.err /= 0 THEN auth.err
    ELSE IF user_id \notin DOMAIN profiles THEN 404
    ELSE 200

UpdateUserRoleStatus(auth, user_id, role) ==
    IF auth.err /= 0 THEN auth.err
    ELSE IF role \notin Roles THEN 400
    ELSE IF user_id \notin DOMAIN profiles THEN 404
    ELSE 200

UpdateUserRole(authorization, user_id, role) ==
    LET auth == require_admin(authorization)
        status == UpdateUserRoleStatus(auth, user_id, role)
    IN  /\ last = Idle
        /\ profiles' = IF status = 200
                       THEN [profiles EXCEPT ![user_id].role = role]
                       ELSE profiles
        /\ last' = Response("update_user_role", auth.user,
                            [user_id |-> user_id, role |-> role], status, <<>>)
        /\ UNCHANGED <<branches, books, copies, loans, procs>>

(***************************************************************************)
(* routers/branches.py: create_branch, list_branches, get_branch           *)
(***************************************************************************)
MaxBranches == 2

BranchIdPool == <<"b1", "b2", "b3", "b4">>

\* The request body taken as the update, undeclared fields included.
BranchUpdateWithExtras(body) == body

\* BranchUpdate: the fields of the request body the model declares; any
\* other field of the body is dropped.
BranchUpdate(body) ==
    [name |-> IF "name" \in DOMAIN body THEN body.name ELSE None,
     address |-> IF "address" \in DOMAIN body THEN body.address ELSE None]

CreateBranch(authorization, name, owner_id, address) ==
    LET auth == require_admin(authorization)
        status == IF auth.err /= 0 THEN auth.err ELSE 200
        id == FreshId(BranchIdPool, DOMAIN branches)
    IN  /\ last = Idle
        /\ status = 200 => Cardinality(DOMAIN branches) < MaxBranches
        /\ branches' = IF status = 200
                       THEN [b \in DOMAIN branches \cup {id} |->
                               IF b \in DOMAIN branches THEN branches[b]
                               ELSE [owner_id |-> owner_id, name |-> name,
                                     address |-> address]]
                       ELSE branches
        /\ last' = Response("create_branch", auth.user,
                            [name |-> name, owner_id |-> owner_id, address |-> address],
                            status, IF status = 200 THEN <<id>> ELSE <<>>)
        /\ UNCHANGED <<profiles, books, copies, loans, procs>>

\* The rows of a table, in the order of their ids.
IdsInOrder(pool, ids) == SelectSeq(pool, LAMBDA x : x \in ids)

CopiesOfBranch(branch_id) == {c \in DOMAIN copies : copies[c].branch_id = branch_id}

\* any(loan["returned_at"] is None for loan in c.get("loans", []))
HasOpenLoan(copy_id) ==
    \E i \in DOMAIN loans : loans[i].copy_id = copy_id /\ loans[i].returned_at = None

\* The stats counting loans instead of copies: on_loan is the number of loans
\* with null returned_at among the branch's copies.
BranchStatsPerLoan(branch_id) ==
    LET total_copies == Cardinality(CopiesOfBranch(branch_id))
        open_loans == Cardinality({i \in DOMAIN loans :
                                      /\ loans[i].copy_id \in CopiesOfBranch(branch_id)
                                      /\ loans[i].returned_at = None})
    IN  [total_copies |-> total_copies, available |-> total_copies - open_loans,
         on_loan |-> open_loans]

BranchStats(branch_id) ==
    LET total_copies == Cardinality(CopiesOfBranch(branch_id))
        available_copies ==
            Cardinality({c \in CopiesOfBranch(branch_id) : ~HasOpenLoan(c)})
    IN  [total_copies |-> total_copies, available |-> available_copies,
         on_loan |-> total_copies - available_copies]

ListBranches ==
    LET ids == IdsInOrder(BranchIdPool, DOMAIN branches)
    IN  /\ last = Idle
        /\ last' = Response("list_branches", Anonymous, <<>>, 200,
                            [i \in DOMAIN ids |->
                               [id |-> ids[i], owner_id |-> branches[ids[i]].owner_id,
                                name |-> branches[ids[i]].name,
                                copy_count |-> Cardinality(CopiesOfBranch(ids[i]))]])
        /\ UNCHANGED <<store, procs>>

GetBranch(branch_id) ==
    LET status == IF branch_id \notin DOMAIN branches THEN 404 ELSE 200
    IN  /\ last = Idle
        /\ last' = Response("get_branch", Anonymous, [branch_id |-> branch_id], status,
                            IF status = 200
                            THEN <<[id |-> branch_id,
                                    owner_id |-> branches[branch_id].owner_id,
                                    name |-> branches[branch_id].name,
                                    stats |-> BranchStats(branch_id)]>>
                            ELSE <<>>)
        /\ UNCHANGED <<store, procs>>

(***************************************************************************)
(* routers/copies.py: list_copies, get_copy.  The loans embedded in a copy *)
(* are its rows of the loans table, in the table's order.                  *)
(***************************************************************************)
LoansOf(copy_id) == SelectSeq(loans, LAMBDA l : l.copy_id = copy_id)

\* The loan examined instead of the first open one: the latest loan of the copy.
ActiveLoanOfLatest(rows) ==
    IF rows /= <<>> /\ rows[Len(rows)].returned_at = None
    THEN <<rows[Len(rows)]>> ELSE <<>>

\* next((loan for loan in copy.get("loans", []) if loan["returned_at"] is None), None)
RECURSIVE ActiveLoan(_)
ActiveLoan(rows) ==
    IF rows = <<>> THEN <<>>
    ELSE IF Head(rows).returned_at = None THEN <<Head(rows)>>
    ELSE ActiveLoan(Tail(rows))

\* An Optional[bool] query parameter: absent, or <<value>>.
NoFlag == <<>>

\* The copies selected by the query, before the availability filter.
CopyPage(book_id, branch_id, limit, offset) ==
    LET matches(c) == /\ Truthy(book_id) => copies[c].book_id = book_id
                      /\ Truthy(branch_id) => copies[c].branch_id = branch_id
        ids == SelectSeq(IdsInOrder(CopyIdPool, DOMAIN copies), matches)
    IN  SubSeq(ids, offset + 1, IF offset + limit < Len(ids) THEN offset + limit ELSE Len(ids))

CopyView(copy_id) ==
    [id |-> copy_id, branch_id |-> copies[copy_id].branch_id,
     book_id |-> copies[copy_id].book_id,
     is_available |-> ActiveLoan(LoansOf(copy_id)) = <<>>]

\* The filter keeping the available copies whichever value is asked for.
AvailableFilterTrueOnly(views, available) ==
    IF available = NoFlag THEN views
    ELSE SelectSeq(views, LAMBDA v : v.is_available)

\* if available is not None: [c for c in copies if c["is_available"] == available]
AvailableFilter(views, available) ==
    IF available = NoFlag THEN views
    ELSE SelectSeq(views, LAMBDA v : v.is_available = available[1])

ListCopies(book_id, branch_id, available, limit, offset) ==
    LET page == CopyPage(book_id, branch_id, limit, offset)
        views == [i \in DOMAIN page |-> CopyView(page[i])]
        rows == AvailableFilter(views, available)
    IN  /\ last = Idle
        /\ last' = Response("list_copies", Anonymous,
                            [book_id |-> book_id, branch_id |-> branch_id,
                             available |-> available, limit |-> limit, offset |-> offset],
                            200, <<[copies |-> rows, count |-> Len(rows)]>>)
        /\ UNCHANGED <<store, procs>>

GetCopy(copy_id) ==
    LET status == IF copy_id \notin DOMAIN copies THEN 404 ELSE 200
    IN  /\ last = Idle
        /\ last' = Response("get_copy", Anonymous, [copy_id |-> copy_id], status,
                            IF status = 200
                            THEN <<[id |-> copy_id,
                                    is_available |-> ActiveLoan(LoansOf(copy_id)) = <<>>,
                                    current_loan |-> ActiveLoan(LoansOf(copy_id))]>>
                            ELSE <<>>)
        /\ UNCHANGED <<store, procs>>

(***************************************************************************)
(* routers/books.py: list_books, called without the search parameter q.    *)
(* The copies embedded in a book are its rows of the copies table, in the  *)
(* table's order.                                                          *)
(***************************************************************************)
CopiesOfBook(book_id) ==
    IdsInOrder(CopyIdPool, {c \in DOMAIN copies : copies[c].book_id = book_id})

\* "Filter by branch", "Filter by availability": the copies of a book that are kept.
FilteredCopies(ids, branch, available) ==
    LET in_branch == IF Truthy(branch)
                     THEN SelectSeq(ids, LAMBDA c : copies[c].branch_id = branch)
                     ELSE ids
    IN  IF available = NoFlag THEN in_branch
        ELSE IF available[1] THEN SelectSeq(in_branch, LAMBDA c : ~HasOpenLoan(c))
        ELSE SelectSeq(in_branch, LAMBDA c : HasOpenLoan(c))

\* `branch or available`: a branch id, or available given and true.
BranchOrAvailable(branch, available) ==
    Truthy(branch) \/ (available /= NoFlag /\ available[1])

\* if copies or not (branch or available)
KeepsBook(kept, branch, available) ==
    kept /= <<>> \/ ~BranchOrAvailable(branch, available)

ListBooks(branch, available, limit, offset) ==
    LET page == Range(IdsInOrder(BookIdPool, DOMAIN books), offset, limit)
        fetched == [i \in DOMAIN page |->
                      [id |-> page[i], copies |-> CopiesOfBook(page[i])]]
        narrowed == [i \in DOMAIN page |->
                       [id |-> page[i],
                        copies |-> FilteredCopies(CopiesOfBook(page[i]), branch, available)]]
        rows == IF Truthy(branch) \/ available /= NoFlag
                THEN SelectSeq(narrowed, LAMBDA b : KeepsBook(b.copies, branch, available))
                ELSE fetched
    IN  /\ last = Idle
        /\ last' = Response("list_books", Anonymous,
                            [branch |-> branch, available |-> available,
                             limit |-> limit, offset |-> offset],
                            200, <<[books |-> rows, count |-> Len(rows)]>>)
        /\ UNCHANGED <<store, procs>>

(***************************************************************************)
(* The administration specification: every mutating request and the public *)
(* catalog reads, one at a time, named by their routes.  The library       *)
(* starts with the admin u1, the branch owner u2 with branch b1 and its    *)
(* copy c1, and the borrower u3.                                           *)
(***************************************************************************)
AdminCallers == {NoHeader, Bearer("u1"), Bearer("u2"), Bearer("u3")}
Clerks == {NoHeader, Bearer("u1")}

\* Request bodies of PUT /branches/{id}; a body may carry fields that
\* BranchUpdate does not declare.
BranchBodies ==
    {[name |-> "East"], [name |-> "East", owner_id |-> "u3"], [owner_id |-> "u3"]}

RoleArgs == {"admin", "borrower", "owner"}

post_branches ==
    \E a \in AdminCallers, o \in {"u2", "u3"} : CreateBranch(a, "Annex", o, None)

put_branches ==
    \E a \in AdminCallers, b \in {"b1", "b2"}, body \in BranchBodies :
        /\ last = Idle
        /\ UpdateBranch(a, b, BranchUpdate(body))

put_users_role ==
    \E a \in AdminCallers, u \in {"u2", "u3", "u9"}, r \in RoleArgs :
        UpdateUserRole(a, u, r)

post_copies ==
    \E a \in Clerks, b \in {"b1", "b9"} : CreateCopy(a, "k1", b, NoIsbn, None, None, FALSE)

put_copies ==
    \E a \in Clerks,
       u \in {[condition |-> None, notes |-> "torn"], [condition |-> "worn", notes |-> None]} :
        UpdateCopy(a, "c1", u)

delete_copies ==
    \E a \in Clerks, c \in {"c1", "c9"} : DeleteCopy(a, c)

post_loans ==
    \E a \in Clerks, c \in {"c1", "c9"} : CreateLoan(a, c, "u3", Date(2024, 10, 1), None)

post_loans_return ==
    \E a \in Clerks, l \in 1 .. MaxLoans : ReturnLoan(a, l, None, "t1")

get_copies ==
    \E b \in {None, "b1"}, f \in {NoFlag, <<TRUE>>, <<FALSE>>} : ListCopies(None, b, f, 50, 0)

get_copies_id == \E c \in {"c1", "c9"} : GetCopy(c)

get_branches == ListBranches

get_branches_id == \E b \in {"b1", "b9"} : GetBranch(b)

InitAdmin ==
    /\ profiles = [u \in {"u1", "u2", "u3"} |->
                     [role |-> CASE u = "u1" -> "admin"
                                 [] u = "u2" -> "branch_owner"
                                 [] OTHER -> "borrower"]]
    /\ branches = [b \in {"b1"} |-> [owner_id |-> "u2", name |-> "Main", address |-> None]]
    /\ books = [k \in {"k1"} |-> [isbn |-> NoIsbn]]
    /\ copies = [c \in {"c1"} |->
                   [book_id |-> "k1", branch_id |-> "b1",
                    condition |-> None, notes |-> None, added_by |-> "u1"]]
    /\ loans = <<>>
    /\ last = Idle
    /\ procs = <<>>

NextAdmin ==
    \/ post_branches \/ put_branches \/ put_users_role
    \/ post_copies \/ put_copies \/ delete_copies
    \/ post_loans \/ post_loans_return
    \/ get_copies \/ get_copies_id \/ get_branches \/ get_branches_id
    \/ Deliver

SpecAdmin == InitAdmin /\ [][NextAdmin]_vars

(***************************************************************************)
(* The identity specification: credentials are resolved while the admin    *)
(* changes roles.  Subject u4 is known to the verifier and has no profile. *)
(***************************************************************************)
Credentials ==
    {NoHeader, Bearer("u1"), Bearer("u2"), Bearer("u3"), Bearer("u4"),
     Bearer("void"), Bearer("expired"), <<"Basic", "u1">>, <<"u2", "u2">>}

resolve ==
    \E a \in Credentials, single_raises \in BOOLEAN : Resolve(a, single_raises)

set_role ==
    \E u \in {"u1", "u2", "u3", "u9"}, r \in Roles \cup {"owner"} :
        UpdateUserRole(Bearer("u1"), u, r)

NextIdentity == resolve \/ set_role \/ Deliver

SpecIdentity == InitAdmin /\ [][NextIdentity]_vars

(***************************************************************************)
(* The availability specification: get_copy and list_copies on every loans *)
(* table of up to MaxLoans rows for the copies c1 and c2: returned or not, *)
(* due on either date, several rows of one copy without returned_at        *)
(* included (concurrent create_loan requests leave such tables).           *)
(***************************************************************************)
LoanShapes ==
    [copy_id : {"c1", "c2"}, due_date : Dates, returned_at : {None, "t1"}]

LoanTables == UNION {[1 .. n -> LoanShapes] : n \in 0 .. MaxLoans}

StoredLoans(t) ==
    [i \in DOMAIN t |->
        [id |-> i, copy_id |-> t[i].copy_id, borrower_id |-> "u3",
         due_date |-> DateStr(t[i].due_date), returned_at |-> t[i].returned_at,
         notes |-> None]]

read_copy == \E c \in {"c1", "c2", "c9"} : GetCopy(c)

read_copies ==
    \E b \in {None, "b1"}, f \in {NoFlag, <<TRUE>>, <<FALSE>>}, n \in {1, 50} :
        ListCopies(None, b, f, n, 0)

InitAvailability ==
    /\ Init!1 /\ Init!2 /\ Init!3 /\ Init!4 /\ Init!6 /\ Init!7
    /\ \E t \in LoanTables : loans = StoredLoans(t)

NextAvailability == read_copy \/ read_copies \/ Deliver

SpecAvailability == InitAvailability /\ [][NextAvailability]_vars

(***************************************************************************)
(* The shelving specification: copies are added by ISBN alone to a library *)
(* that has no book yet, the ISBN written plainly, with a hyphen or with a *)
(* space.                                                                  *)
(***************************************************************************)
IsbnForms == {<<"9", "7">>, <<"9", "-", "7">>, <<"9", " ", "7">>}

shelve ==
    \E a \in {Bearer("u1"), Bearer("u2")}, i \in IsbnForms, found \in BOOLEAN :
        CreateCopy(a, None, "b1", i, None, None, found)

InitShelving ==
    /\ Init!1 /\ Init!2 /\ Init!5 /\ Init!6 /\ Init!7
    /\ books = [k \in {} |-> [isbn |-> NoIsbn]]
    /\ copies = [c \in {} |-> [book_id |-> None, branch_id |-> None, condition |-> None,
                               notes |-> None, added_by |-> None]]

NextShelving == shelve \/ Deliver

SpecShelving == InitShelving /\ [][NextShelving]_vars

(***************************************************************************)
(* A .single().execute() whose query matches no row.  The client either    *)
(* answers without data, and the handler raises its 404 (the status        *)
(* operators above), or it raises; these handlers have no except clause,   *)
(* so global_exception_handler answers 500.  Which of the two happens is   *)
(* not decided by this repository: the actions below are the second        *)
(* outcome.                                                                *)
(***************************************************************************)
\* create_loan: "Verify copy exists and get branch info" raises.
CreateLoanCopyReadRaises(authorization, copy_id, borrower_id, due_date, notes) ==
    LET auth == require_branch_owner(authorization)
    IN  /\ last = Idle
        /\ auth.err = 0
        /\ copy_id \notin DOMAIN copies
        /\ last' = Response("create_loan", auth.user,
                            [copy_id |-> copy_id, borrower_id |-> borrower_id,
                             due_date |-> due_date, notes |-> notes],
                            500, <<>>)
        /\ UNCHANGED <<store, procs>>

\* update_copy: "Verify copy exists and user owns the branch" raises.
UpdateCopyReadRaises(authorization, copy_id, update) ==
    LET auth == require_branch_owner(authorization)
    IN  /\ last = Idle
        /\ auth.err = 0
        /\ copy_id \notin DOMAIN copies
        /\ last' = Response("update_copy", auth.user,
                            [copy_id |-> copy_id, update |-> update], 500, <<>>)
        /\ UNCHANGED <<store, procs>>

\* update_branch: "Verify branch exists and user has permission" raises.
UpdateBranchReadRaises(authorization, branch_id, update) ==
    LET auth == require_branch_owner(authorization)
    IN  /\ last = Idle
        /\ auth.err = 0
        /\ branch_id \notin DOMAIN branches
        /\ last' = Response("update_branch", auth.user,
                            [branch_id |-> branch_id, update |-> update], 500, <<>>)
        /\ UNCHANGED <<store, procs>>

(***************************************************************************)
(* The lending specification: the serial lending requests with both        *)
(* outcomes of the copy read, and get_copy between them.                   *)
(***************************************************************************)
create_loan_read_raises ==
    \E a \in Callers, c \in CopyArgs, b \in BorrowerArgs, d \in Dates :
        CreateLoanCopyReadRaises(a, c, b, d, None)

NextLending ==
    create_loan \/ create_loan_read_raises \/ return_loan \/ read_copy \/ Deliver

SpecLending == Init /\ [][NextLending]_vars

(***************************************************************************)
(* The books specification: list_books on a library of two books, k1 with  *)
(* the copies c1 (branch b1) and c3 (branch b2), k2 with the copy c2, on   *)
(* every loans table of up to MaxLoans rows for c1 and c2.                 *)
(***************************************************************************)
get_books ==
    \E b \in {None, "b1", "b2"}, f \in {NoFlag, <<TRUE>>, <<FALSE>>},
       n \in {1, 50}, o \in {0, 1} :
        ListBooks(b, f, n, o)

InitBooks ==
    /\ Init!1 /\ Init!2 /\ Init!6 /\ Init!7
    /\ books = [k \in {"k1", "k2"} |-> [isbn |-> NoIsbn]]
    /\ copies = [c \in {"c1", "c2", "c3"} |->
                   [book_id |-> IF c = "c2" THEN "k2" ELSE "k1",
                    branch_id |-> IF c = "c1" THEN "b1" ELSE "b2",
                    condition |-> None, notes |-> None, added_by |-> "u1"]]
    /\ \E t \in LoanTables : loans = StoredLoans(t)

NextBooks == get_books \/ Deliver

SpecBooks == InitBooks /\ [][NextBooks]_vars

(***************************************************************************)
(* The updates specification: update_copy and update_branch with every     *)
(* payload of absent and present fields, by every caller, on the one       *)
(* branch and copy of the catalog and on ids that no row has, with both    *)
(* outcomes of the read.                                                   *)
(***************************************************************************)
Editors == {NoHeader, Bearer("u1"), Bearer("u2"), Bearer("u3")}
CopyUpdates == [condition : {None, "worn"}, notes : {None, "torn"}]
BranchUpdates == [name : {None, "East"}, address : {None, "Hill St"}]

patch_copy ==
    \E a \in Editors, c \in {"c1", "c9"}, u \in CopyUpdates : UpdateCopy(a, c, u)

patch_copy_read_raises ==
    \E a \in Editors, c \in {"c1", "c9"}, u \in CopyUpdates : UpdateCopyReadRaises(a, c, u)

patch_branch ==
    \E a \in Editors, b \in {"b1", "b9"}, u \in BranchUpdates : UpdateBranch(a, b, u)

patch_branch_read_raises ==
    \E a \in Editors, b \in {"b1", "b9"}, u \in BranchUpdates :
        UpdateBranchReadRaises(a, b, u)

NextUpdates ==
    \/ patch_copy \/ patch_copy_read_raises
    \/ patch_branch \/ patch_branch_read_raises
    \/ Deliver

SpecUpdates == InitCatalog /\ [][NextUpdates]_vars

(***************************************************************************)
(* The stats specification: get_branch on every loans table of up to       *)
(* MaxLoans rows for the copies c1 (branch b1) and c2 (branch b2), while   *)
(* the admin adds copies to either branch.                                 *)
(***************************************************************************)
read_branch == \E b \in {"b1", "b2", "b9"} : GetBranch(b)

stock ==
    \E b \in {"b1", "b2"} : CreateCopy(Bearer("u1"), "k1", b, NoIsbn, None, None, FALSE)

NextStats == read_branch \/ stock \/ Deliver

SpecStats == InitAvailability /\ [][NextStats]_vars

(***************************************************************************)
(* What the claims need to speak of.                                       *)
(***************************************************************************)
\* The copy ids a loan row or a copy row names.
KnownCopies == DOMAIN copies \cup {loans[i].copy_id : i \in DOMAIN loans}

OpenCount(c) ==
    Cardinality({i \in DOMAIN loans : loans[i].copy_id = c /\ loans[i].returned_at = None})

\* The policy for a resource-scoped write on a branch owned by owner_id.
MayWrite(user, owner_id) ==
    \/ user.role = "admin"
    \/ user.role = "branch_owner" /\ user.id = owner_id

\* The order of the calendar.
DateBefore(a, b) ==
    \/ a.y < b.y
    \/ a.y = b.y /\ a.m < b.m
    \/ a.y = b.y /\ a.m = b.m /\ a.d < b.d

\* The date a "YYYY-MM-DD" string denotes.
ParseDate(str) ==
    Date((str[1] - 48) * 1000 + (str[2] - 48) * 100 + (str[3] - 48) * 10 + (str[4] - 48),
         (str[6] - 48) * 10 + (str[7] - 48),
         (str[9] - 48) * 10 + (str[10] - 48))

\* The derived status of a loan (I2).
DerivedStatus(l, today) ==
    IF l.returned_at /= None THEN "returned"
    ELSE IF DateBefore(ParseDate(l.due_date), today) THEN "overdue"
    ELSE "active"

Listed == last.op = "list_loans" /\ last.status = 200

\* The rows of a response, as a set.
Rows(rows) == {rows[i] : i \in DOMAIN rows}

(***************************************************************************)
(* C1: with create_loan and return_loan called one at a time, every copy   *)
(* has at most one loan with null returned_at, in every reachable state.   *)
(***************************************************************************)
C1_OneOpenLoanPerCopy == \A c \in KnownCopies : OpenCount(c) <= 1

\* A copy lent, returned and lent again.
C1_Witness ==
    /\ Len(loans) = 2
    /\ loans[1].copy_id = loans[2].copy_id
    /\ loans[1].returned_at /= None
    /\ loans[2].returned_at = None

(***************************************************************************)
(* C2: when create_loan requests for one copy run concurrently, their      *)
(* store calls interleaved, at most one of them inserts a loan: no copy    *)
(* ever has two loans with null returned_at.                               *)
(***************************************************************************)
C2_ConcurrentCreatesKeepOneOpenLoan ==
    \A i, j \in DOMAIN loans :
        (/\ loans[i].copy_id = loans[j].copy_id
         /\ loans[i].returned_at = None
         /\ loans[j].returned_at = None) => i = j

(***************************************************************************)
(* C3: a create_loan on a copy that has a loan with null returned_at, by   *)
(* the branch's owner with role branch_owner or by an admin, ends with 409 *)
(* whatever borrower_id and due_date are, and inserts no row.              *)
(***************************************************************************)
C3_ConflictOnOpenLoan ==
    [][ ( /\ last'.op = "create_loan"
          /\ last'.args.copy_id \in DOMAIN copies
          /\ OpenCount(last'.args.copy_id) >= 1
          /\ MayWrite(last'.user, CopyOwner(last'.args.copy_id)) )
        => (last'.status = 409 /\ loans' = loans) ]_vars

\* The conflict answered to the owner for a borrower that does not exist.
C3_Witness ==
    /\ last.op = "create_loan"
    /\ last.status = 409
    /\ last.user.role = "branch_owner"
    /\ last.args.borrower_id \notin DOMAIN profiles
    /\ Len(loans) = 1

(***************************************************************************)
(* C4: a return_loan on a loan whose returned_at is set writes nothing,    *)
(* so returned_at and notes keep what the first return left; the handler   *)
(* (reached by a branch_owner or an admin) ends with 400.                  *)
(***************************************************************************)
C4_SecondReturnRejected ==
    [][ ( /\ last'.op = "return_loan"
          /\ last'.args.loan_id \in LoanIds
          /\ LoanRow(last'.args.loan_id).returned_at /= None )
        => ( /\ loans' = loans
             /\ last'.user.role \in {"branch_owner", "admin"} => last'.status = 400 ) ]_vars

\* A second return with another time and other notes, refused.
C4_Witness ==
    /\ last.op = "return_loan"
    /\ last.status = 400
    /\ LoanRow(last.args.loan_id).returned_at /= last.args.now
    /\ Truthy(last.args.notes)
    /\ LoanRow(last.args.loan_id).notes /= last.args.notes

(***************************************************************************)
(* C5: the status filter of list_loans keeps a loan under exactly the one  *)
(* status value that is its derived status: returned iff returned_at is    *)
(* set, else overdue iff due_date < today, else active.                    *)
(***************************************************************************)
C5_StatusFilterIsDerivedStatus ==
    (Listed /\ last.args.status /= None) =>
        last.result = SelectSeq(VisibleRows(last.user, last.args),
                                LAMBDA l : DerivedStatus(l, last.args.today) = last.args.status)

(***************************************************************************)
(* C6: list_loans with status=overdue returns exactly the visible rows of  *)
(* the page with null returned_at and due_date strictly before today; a    *)
(* loan due today is not among them.                                       *)
(***************************************************************************)
C6_OverdueIsStrictlyBefore ==
    (Listed /\ last.args.status = "overdue") =>
        last.result = SelectSeq(VisibleRows(last.user, last.args),
                                LAMBDA l : /\ l.returned_at = None
                                           /\ DateBefore(ParseDate(l.due_date),
                                                         last.args.today))

\* An open loan due today left out, an open loan due before today returned.
C6_Witness ==
    /\ Listed
    /\ last.args.status = "overdue"
    /\ Len(last.result) = 1
    /\ \E i \in DOMAIN loans :
          /\ loans[i].returned_at = None
          /\ ParseDate(loans[i].due_date) = last.args.today
          /\ loans[i] \notin Rows(last.result)
          /\ loans[i] \in Rows(VisibleRows(last.user, last.args))

(***************************************************************************)
(* C7: whatever the parameters, list_loans returns to a borrower only      *)
(* loans whose borrower_id is the actor's id, and to a branch_owner only   *)
(* loans whose copy's branch has the actor as owner_id.                    *)
(***************************************************************************)
C7_ScopedVisibility ==
    Listed =>
        /\ last.user.role = "borrower" =>
              \A l \in Rows(last.result) : l.borrower_id = last.user.id
        /\ last.user.role = "branch_owner" =>
              \A l \in Rows(last.result) : LoanOwner(l) = last.user.id

\* A borrower asking for another borrower's loans gets its own.
C7_Witness ==
    /\ Listed
    /\ last.user.role = "borrower"
    /\ Truthy(last.args.borrower_id)
    /\ last.args.borrower_id /= last.user.id
    /\ last.result /= <<>>
    /\ \E i \in DOMAIN loans : loans[i].borrower_id = last.args.borrower_id

(***************************************************************************)
(* C8 as claimed: an admin's list_loans returns every loan of the page,    *)
(* whatever borrower_id, branch_id and status are.                         *)
(***************************************************************************)
C8_AdminSeesWholePage ==
    (Listed /\ last.user.role = "admin") =>
        last.result = Range(NewestFirst, last.args.offset, last.args.limit)

(***************************************************************************)
(* C8 amended: an admin's list_loans returns the page fetched with the     *)
(* borrower_id parameter, less the rows the branch_id and status           *)
(* parameters exclude; no row is removed for the actor's id or role.       *)
(***************************************************************************)
C8_AdminSeesAllButFiltered ==
    (Listed /\ last.user.role = "admin") =>
        last.result =
            SelectSeq(
                Range(SelectSeq(NewestFirst,
                                LAMBDA l : Truthy(last.args.borrower_id)
                                              => l.borrower_id = last.args.borrower_id),
                      last.args.offset, last.args.limit),
                LAMBDA l : /\ Truthy(last.args.branch_id)
                              => copies[l.copy_id].branch_id = last.args.branch_id
                           /\ StatusSelects(last.args.status, l, last.args.today))

\* An admin, who borrowed and owns nothing, sees the loans its filters keep.
C8_Witness ==
    /\ Listed
    /\ last.user.role = "admin"
    /\ Truthy(last.args.borrower_id)
    /\ last.result /= <<>>
    /\ Len(last.result) < Len(Range(NewestFirst, last.args.offset, last.args.limit))
    /\ \A l \in Rows(last.result) :
          l.borrower_id /= last.user.id /\ LoanOwner(l) /= last.user.id

(***************************************************************************)
(* C9 as claimed: get_loan returns an existing loan exactly to an admin,   *)
(* to a borrower who is the loan's borrower, and to a branch_owner who     *)
(* owns the loan's branch; every other authenticated actor gets 403.       *)
(***************************************************************************)
C9_AccessByRole ==
    (last.op = "get_loan" /\ last.status \in {200, 403}) =>
        (last.status = 200 <=>
            \/ last.user.role = "admin"
            \/ /\ last.user.role = "borrower"
               /\ last.user.id = LoanRow(last.args.loan_id).borrower_id
            \/ /\ last.user.role = "branch_owner"
               /\ last.user.id = LoanOwner(LoanRow(last.args.loan_id)))

(***************************************************************************)
(* C9 amended: get_loan returns an existing loan to an authenticated actor *)
(* exactly when the actor is an admin, or its id is the loan's borrower_id,*)
(* or its id is the owner_id of the loan's branch, whatever its role;      *)
(* otherwise it ends with 403.                                             *)
(***************************************************************************)
C9_AccessById ==
    (/\ last.op = "get_loan"
     /\ last.user /= Anonymous
     /\ last.args.loan_id \in LoanIds) =>
        /\ last.status \in {200, 403}
        /\ last.status = 200 <=>
              \/ last.user.role = "admin"
              \/ last.user.id = LoanRow(last.args.loan_id).borrower_id
              \/ last.user.id = LoanOwner(LoanRow(last.args.loan_id))
        /\ last.status = 200 => last.result = <<LoanRow(last.args.loan_id)>>

\* A branch_owner reads the loan it borrowed at a branch it does not own.
C9_Witness ==
    /\ last.op = "get_loan"
    /\ last.status = 200
    /\ last.user.role = "branch_owner"
    /\ last.user.id = LoanRow(last.args.loan_id).borrower_id
    /\ last.user.id /= LoanOwner(LoanRow(last.args.loan_id))

(***************************************************************************)
(* C10: the resource-scoped writes and the branch each of them is scoped   *)
(* to.                                                                     *)
(***************************************************************************)
ScopedWrites ==
    {"update_branch", "create_copy", "update_copy", "delete_copy",
     "create_loan", "return_loan"}

\* Whether the resource a request names exists, and the owner_id of its branch.
TargetExists(r) ==
    CASE r.op \in {"update_branch", "create_copy"} -> r.args.branch_id \in DOMAIN branches
      [] r.op \in {"update_copy", "delete_copy", "create_loan"} ->
            r.args.copy_id \in DOMAIN copies
      [] r.op = "return_loan" -> r.args.loan_id \in LoanIds
      [] OTHER -> FALSE

TargetOwner(r) ==
    CASE r.op \in {"update_branch", "create_copy"} -> branches[r.args.branch_id].owner_id
      [] r.op \in {"update_copy", "delete_copy", "create_loan"} -> CopyOwner(r.args.copy_id)
      [] OTHER -> LoanOwner(LoanRow(r.args.loan_id))

(***************************************************************************)
(* C10: a resource-scoped write on an existing resource is authorized iff  *)
(* the actor is an admin, or has role branch_owner and is the owner_id of  *)
(* the resource's branch.  An authorized actor never gets 403.  Any other  *)
(* actor is denied: the branch, copy and loan tables stay as they were and *)
(* the request ends with 403 (401 without an actor), or with the 400 that  *)
(* return_loan gives for a returned loan and create_copy for a missing     *)
(* book before they look at the owner.                                     *)
(***************************************************************************)
C10_ScopedWriteAuthorization ==
    [][ (last'.op \in ScopedWrites /\ TargetExists(last')) =>
          IF MayWrite(last'.user, TargetOwner(last'))
          THEN last'.status /= 403
          ELSE /\ \/ last'.status = 403
                  \/ last'.status = 401 /\ last'.user = Anonymous
                  \/ /\ last'.status = 400
                     /\ last'.op = "return_loan"
                     /\ LoanRow(last'.args.loan_id).returned_at /= None
                  \/ last'.status = 400 /\ last'.op = "create_copy"
               /\ branches' = branches
               /\ copies' = copies
               /\ loans' = loans ]_vars

\* The owner_id of the branch, whose role is borrower, is refused a copy.
C10_Witness ==
    /\ last.op = "create_copy"
    /\ last.status = 403
    /\ last.user.role = "borrower"
    /\ last.args.branch_id \in DOMAIN branches
    /\ branches[last.args.branch_id].owner_id = last.user.id

(***************************************************************************)
(* C11: a request that ends with the authorization error (403) leaves the  *)
(* store as it was; in particular a create_copy that is refused for the    *)
(* branch's owner inserts no book.                                         *)
(***************************************************************************)
C11_DenialLeavesStoreUnchanged ==
    [][ last'.status = 403 =>
          /\ profiles' = profiles
          /\ branches' = branches
          /\ books' = books
          /\ copies' = copies
          /\ loans' = loans ]_vars

(***************************************************************************)
(* C12: the mutating requests and the public catalog reads.                *)
(***************************************************************************)
MutatingOps ==
    {"create_branch", "update_branch", "create_copy", "update_copy", "delete_copy",
     "create_loan", "return_loan", "update_user_role"}

PublicReads == {"list_copies", "get_copy", "list_branches", "get_branch"}

(***************************************************************************)
(* C12: a mutating request sent without a credential (its caller resolves  *)
(* to no actor) ends with 401 and leaves every table as it was; a catalog  *)
(* read (list_copies, get_copy, list_branches, get_branch) never ends with *)
(* 401 or 403.                                                             *)
(***************************************************************************)
C12_AnonymousWritesRefusedReadsPublic ==
    [][ /\ (last'.op \in MutatingOps /\ last'.user = Anonymous) =>
              /\ last'.status = 401
              /\ profiles' = profiles
              /\ branches' = branches
              /\ books' = books
              /\ copies' = copies
              /\ loans' = loans
        /\ last'.op \in PublicReads => last'.status \notin {401, 403} ]_vars

\* An update_user_role without a credential was refused while a second
\* branch exists (the admin's create_branch went through).
C12_Witness ==
    /\ last.op = "update_user_role"
    /\ last.user = Anonymous
    /\ last.status = 401
    /\ "b2" \in DOMAIN branches

\* The row of a loans table with the given id.
RowOf(table, id) == table[CHOOSE i \in DOMAIN table : table[i].id = id]

(***************************************************************************)
(* C13: over any sequence of create_loan and return_loan calls a loan row  *)
(* stays in the table; once its returned_at is set, returned_at keeps that *)
(* value (it is neither replaced nor set back to null); and a step changes *)
(* a field of an existing row only if it is a successful return_loan of    *)
(* that loan.                                                              *)
(***************************************************************************)
C13_ReturnedOnceAndOnlyByReturn ==
    [][ \A id \in LoanIds :
          /\ id \in {loans'[j].id : j \in DOMAIN loans'}
          /\ LoanRow(id).returned_at /= None =>
                RowOf(loans', id).returned_at = LoanRow(id).returned_at
          /\ RowOf(loans', id) /= LoanRow(id) =>
                /\ last'.op = "return_loan"
                /\ last'.status = 200
                /\ last'.args.loan_id = id
                /\ LoanRow(id).returned_at = None ]_vars

\* The copy of a returned loan was lent again and that loan returned at a
\* later time: the first loan kept its returned_at.
C13_Witness ==
    /\ last.op = "return_loan"
    /\ last.status = 200
    /\ last.args.now = "t2"
    /\ \E i \in DOMAIN loans :
          /\ loans[i].id /= last.args.loan_id
          /\ loans[i].copy_id = LoanRow(last.args.loan_id).copy_id
          /\ loans[i].returned_at = "t1"

\* The positions of the loans table that hold an open loan of a copy.
OpenAt(copy_id) ==
    {i \in DOMAIN loans : loans[i].copy_id = copy_id /\ loans[i].returned_at = None}

(***************************************************************************)
(* C14: for every loans table, get_copy of an existing copy answers 200    *)
(* with is_available true iff no loan of the copy has null returned_at,    *)
(* whatever the due dates; current_loan is none iff is_available; when     *)
(* loans with null returned_at exist, current_loan is the first of them in *)
(* the table's order.  list_copies reports the same is_available.          *)
(***************************************************************************)
C14_AvailabilityIsNoOpenLoan ==
    /\ last.op = "get_copy" =>
          /\ last.status = 200 <=> last.args.copy_id \in DOMAIN copies
          /\ last.status = 200 =>
                LET v == last.result[1]
                    open == OpenAt(last.args.copy_id)
                IN  /\ v.is_available <=> open = {}
                    /\ v.current_loan = <<>> <=> v.is_available
                    /\ open /= {} =>
                          v.current_loan =
                              <<loans[CHOOSE i \in open : \A j \in open : i <= j]>>
    /\ last.op = "list_copies" =>
          \A i \in DOMAIN last.result[1].copies :
              last.result[1].copies[i].is_available <=>
                  OpenAt(last.result[1].copies[i].id) = {}

\* get_copy of a copy with two open loans: the first is due on the earlier
\* date, the second on the later one.
C14_Witness ==
    /\ last.op = "get_copy"
    /\ last.status = 200
    /\ Cardinality(OpenAt(last.args.copy_id)) = 2
    /\ ~last.result[1].is_available
    /\ last.result[1].current_loan[1].due_date = DateStr(Date(2024, 9, 30))
    /\ \E i \in OpenAt(last.args.copy_id) : loans[i].due_date = DateStr(Date(2024, 10, 1))

(***************************************************************************)
(* C15: a successful create_copy with an ISBN and no book_id looks the     *)
(* ISBN up and inserts one book when no book has that ISBN; when a book    *)
(* has it (the ISBN written in any accepted form) the copy is linked to    *)
(* that book, with no lookup and no new book row.                          *)
(***************************************************************************)
C15_IsbnReusesBook ==
    [][ ( /\ last'.op = "create_copy"
          /\ last'.status = 200
          /\ ~Truthy(last'.args.book_id)
          /\ last'.args.isbn /= NoIsbn ) =>
        LET same == {k \in DOMAIN books :
                        CleanIsbn(books[k].isbn) = CleanIsbn(last'.args.isbn)}
        IN  IF same = {}
            THEN /\ LooksUp(last'.args.book_id, last'.args.isbn)
                 /\ Cardinality(DOMAIN books') = Cardinality(DOMAIN books) + 1
            ELSE /\ ~LooksUp(last'.args.book_id, last'.args.isbn)
                 /\ books' = books
                 /\ copies'[last'.result[1]].book_id \in same ]_vars

Resolved == last.op = "get_current_user"

(***************************************************************************)
(* C16: get_current_user returns no user (anonymous) only for a request    *)
(* without an Authorization header; for a header that is present it        *)
(* returns an authenticated user or raises 401, also when the header does  *)
(* not start with "Bearer " and when the verifier answers without a user.  *)
(***************************************************************************)
C16_AnonymousOnlyWithoutCredential ==
    Resolved =>
        /\ (last.status = 200 /\ last.user = Anonymous) =>
              last.args.authorization = NoHeader
        /\ last.args.authorization /= NoHeader =>
              \/ last.status = 401
              \/ last.status = 200 /\ last.user /= Anonymous

(***************************************************************************)
(* C17: for a credential the verifier accepts whose subject has no row in  *)
(* profiles, get_current_user returns the user with the subject's id and   *)
(* role "borrower"; it does not raise 401.                                 *)
(***************************************************************************)
C17_MissingProfileDefaultsToBorrower ==
    ( /\ Resolved
      /\ Len(last.args.authorization) = 2
      /\ last.args.authorization[1] = "Bearer"
      /\ VerifiedUser(last.args.authorization[2]) /= None
      /\ VerifiedUser(last.args.authorization[2]) \notin DOMAIN profiles ) =>
        /\ last.status = 200
        /\ last.user = [id |-> VerifiedUser(last.args.authorization[2]), role |-> "borrower"]

(***************************************************************************)
(* C18: every step keeps the stored roles among borrower, branch_owner and *)
(* admin.  An update_user_role with any other role value changes no        *)
(* profile and fails, with 400 when the caller is an admin (a caller who   *)
(* is not is refused by require_admin first); an update_user_role by a     *)
(* caller who is not an admin changes no profile.                          *)
(***************************************************************************)
C18_RolesStayEnumerated ==
    [][ /\ (\A u \in DOMAIN profiles : profiles[u].role \in Roles) =>
              (\A u \in DOMAIN profiles' : profiles'[u].role \in Roles)
        /\ last'.op = "update_user_role" =>
              /\ last'.args.role \notin Roles =>
                    /\ profiles' = profiles
                    /\ last'.status \in {400, 401, 403}
                    /\ last'.user.role = "admin" <=> last'.status = 400
              /\ last'.user.role /= "admin" =>
                    /\ profiles' = profiles
                    /\ last'.status \in {401, 403} ]_vars

\* u2, made an admin by an earlier call, asks for a role that does not exist.
C18_Witness ==
    /\ last.op = "update_user_role"
    /\ last.user.id = "u2"
    /\ last.args.role = "owner"
    /\ last.args.user_id \in DOMAIN profiles
    /\ last.status = 400

(***************************************************************************)
(* C19: a branch row appears only in a successful create_branch, whose     *)
(* caller is an admin; no step removes a branch or changes the owner_id of *)
(* an existing branch, whatever the request and its body; an update_branch *)
(* by a caller who is neither an admin nor the branch's owner_id leaves    *)
(* the branches as they were.                                              *)
(***************************************************************************)
C19_BranchOwnerImmutable ==
    [][ /\ \A b \in DOMAIN branches :
              /\ b \in DOMAIN branches'
              /\ branches'[b].owner_id = branches[b].owner_id
        /\ DOMAIN branches' /= DOMAIN branches =>
              /\ last'.op = "create_branch"
              /\ last'.status = 200
              /\ last'.user.role = "admin"
        /\ ( /\ last'.op = "update_branch"
             /\ last'.user.role /= "admin"
             /\ ~ ( /\ last'.args.branch_id \in DOMAIN branches
                    /\ branches[last'.args.branch_id].owner_id = last'.user.id ) ) =>
              branches' = branches ]_vars

\* The branch b2, created by an admin for u2, is renamed by u2.
C19_Witness ==
    /\ last.op = "update_branch"
    /\ last.status = 200
    /\ last.args.branch_id = "b2"
    /\ last.user = [id |-> "u2", role |-> "branch_owner"]
    /\ branches["b2"] = [owner_id |-> "u2", name |-> "East", address |-> None]

(***************************************************************************)
(* C20: when the store refuses create_loan's insert because the copy has   *)
(* an open loan, the request ends with the conflict error (409, as in the  *)
(* already-on-loan case), not with an internal error, and the insert is    *)
(* not tried again.                                                        *)
(***************************************************************************)
C20_RejectedInsertIsConflict ==
    [][ \A p \in Procs :
          ( /\ procs[p].op = "create_loan"
            /\ procs[p].pc = "insert"
            /\ procs'[p] /= procs[p]
            /\ loans' = loans ) =>
              /\ procs'[p].pc = "done"
              /\ procs'[p].status = 409 ]_vars

\* The conditions under which create_loan is to insert a row.
MayLend(user, copy_id, borrower_id) ==
    /\ copy_id \in DOMAIN copies
    /\ MayWrite(user, CopyOwner(copy_id))
    /\ OpenCount(copy_id) = 0
    /\ borrower_id \in DOMAIN profiles

(***************************************************************************)
(* C21: a create_loan by an authorized actor (an admin, or a branch_owner  *)
(* for a copy that exists in its branch) ends with 404 when the copy does  *)
(* not exist and when the borrower has no profile; a create_loan that does *)
(* not end with 200 leaves the loans as they were; and a row is inserted   *)
(* only when the copy exists, the actor is authorized, the copy has no     *)
(* open loan and the borrower exists.                                      *)
(***************************************************************************)
C21_CreateLoanNotFoundAndFrame ==
    [][ last'.op = "create_loan" =>
          /\ ( /\ last'.user.role \in {"admin", "branch_owner"}
               /\ last'.args.copy_id \notin DOMAIN copies ) => last'.status = 404
          /\ ( /\ last'.args.copy_id \in DOMAIN copies
               /\ MayWrite(last'.user, CopyOwner(last'.args.copy_id))
               /\ OpenCount(last'.args.copy_id) = 0
               /\ last'.args.borrower_id \notin DOMAIN profiles ) => last'.status = 404
          /\ last'.status /= 200 => loans' = loans
          /\ loans' /= loans =>
                MayLend(last'.user, last'.args.copy_id, last'.args.borrower_id) ]_vars

(***************************************************************************)
(* C22: with return_loan requests running concurrently, a loan's           *)
(* returned_at is written at most once: no step changes the returned_at of *)
(* a loan that has one, and a return_loan request that acts on a loan      *)
(* whose returned_at is set ends with 400 (already returned), not with 200.*)
(***************************************************************************)
C22_ConcurrentReturnsWriteOnce ==
    [][ /\ \A id \in LoanIds :
              LoanRow(id).returned_at /= None =>
                  RowOf(loans', id).returned_at = LoanRow(id).returned_at
        /\ \A p \in Procs :
              ( /\ procs[p].op = "return_loan"
                /\ procs[p].pc \in {"begin", "update"}
                /\ procs'[p].pc = "done"
                /\ procs[p].args.loan_id \in LoanIds
                /\ LoanRow(procs[p].args.loan_id).returned_at /= None ) =>
                  procs'[p].status = 400 ]_vars

(***************************************************************************)
(* C23: the lifecycle of a copy cycles.  A successful return_loan of the   *)
(* copy's only open loan leaves the copy without an open loan; get_copy of *)
(* a copy without an open loan reports is_available and no current_loan;   *)
(* and a create_loan on such a copy by an authorized actor for a borrower  *)
(* who exists ends with 200 and appends one open loan of that copy, every  *)
(* earlier row, the returned one included, staying as it was.              *)
(***************************************************************************)
C23_CopyLifecycleCycles ==
    [][ /\ ( /\ last'.op = "return_loan"
             /\ last'.status = 200
             /\ OpenCount(LoanRow(last'.args.loan_id).copy_id) = 1 ) =>
              \A j \in DOMAIN loans' :
                  loans'[j].copy_id = LoanRow(last'.args.loan_id).copy_id =>
                      loans'[j].returned_at /= None
        /\ ( /\ last'.op = "get_copy"
             /\ last'.status = 200
             /\ OpenCount(last'.args.copy_id) = 0 ) =>
              /\ last'.result[1].is_available
              /\ last'.result[1].current_loan = <<>>
        /\ ( /\ last'.op = "create_loan"
             /\ MayLend(last'.user, last'.args.copy_id, last'.args.borrower_id) ) =>
              /\ last'.status = 200
              /\ Len(loans') = Len(loans) + 1
              /\ SubSeq(loans', 1, Len(loans)) = loans
              /\ loans'[Len(loans')].copy_id = last'.args.copy_id
              /\ loans'[Len(loans')].borrower_id = last'.args.borrower_id
              /\ loans'[Len(loans')].returned_at = None ]_vars

\* The branch's owner lends a copy whose earlier loan was returned with notes:
\* the returned row is in the table as the return left it.
C23_Witness ==
    /\ last.op = "create_loan"
    /\ last.status = 200
    /\ last.user.role = "branch_owner"
    /\ Len(loans) = 2
    /\ loans[2] = last.result[1]
    /\ loans[1].copy_id = last.args.copy_id
    /\ loans[1].returned_at = "t2"
    /\ loans[1].notes = "damaged"

(***************************************************************************)
(* C24: list_books with the availability filter returns only books that    *)
(* have a copy matching it: with available=true every returned book has a  *)
(* copy with no open loan, and with available=false and no branch filter   *)
(* every returned book has a copy with an open loan.                       *)
(***************************************************************************)
C24_AvailabilityFilterKeepsMatchingBooks ==
    (last.op = "list_books" /\ last.args.available /= NoFlag) =>
        \A i \in DOMAIN last.result[1].books :
            LET of_book == {c \in DOMAIN copies :
                               copies[c].book_id = last.result[1].books[i].id}
            IN  IF last.args.available[1]
                THEN \E c \in of_book : OpenAt(c) = {}
                ELSE ~Truthy(last.args.branch) => \E c \in of_book : OpenAt(c) /= {}

(***************************************************************************)
(* C25: the copies list_copies returns are exactly the copies of the       *)
(* fetched page whose availability (no loan with null returned_at) equals  *)
(* the requested value, in the page's order, all of the page when no value *)
(* is requested; each carries its own is_available; count is the length of *)
(* the list and is at most limit.                                          *)
(***************************************************************************)
C25_AvailableFilterIsSubsequence ==
    last.op = "list_copies" =>
        LET a == last.args
            body == last.result[1]
            page == CopyPage(a.book_id, a.branch_id, a.limit, a.offset)
            expected == IF a.available = NoFlag THEN page
                        ELSE SelectSeq(page, LAMBDA c : (OpenAt(c) = {}) = a.available[1])
        IN  /\ [i \in DOMAIN body.copies |-> body.copies[i].id] = expected
            /\ \A i \in DOMAIN body.copies :
                  body.copies[i].is_available <=> OpenAt(body.copies[i].id) = {}
            /\ body.count = Len(body.copies)
            /\ body.count <= a.limit

\* Copies on loan asked for: of the two copies of the page, the second, which
\* has two open loans, is the one returned.
C25_Witness ==
    /\ last.op = "list_copies"
    /\ last.args.available = <<FALSE>>
    /\ Len(CopyPage(last.args.book_id, last.args.branch_id,
                    last.args.limit, last.args.offset)) = 2
    /\ last.result[1].count = 1
    /\ last.result[1].copies[1].id = "c2"
    /\ Cardinality(OpenAt("c2")) = 2

(***************************************************************************)
(* C26: an update_copy or update_branch by an authorized actor on an       *)
(* existing resource with every field of the payload absent or null ends   *)
(* with 400 and changes nothing; on a resource that does not exist it ends *)
(* with 404, and for an actor who may not write the existing resource with *)
(* 403, whatever the payload; no update that fails changes a row.          *)
(***************************************************************************)
C26_EmptyUpdateRejected ==
    [][ last'.op \in {"update_copy", "update_branch"} =>
          /\ last'.status /= 200 => (copies' = copies /\ branches' = branches)
          /\ ( /\ TargetExists(last')
               /\ MayWrite(last'.user, TargetOwner(last'))
               /\ \A k \in DOMAIN last'.args.update : last'.args.update[k] = None ) =>
                last'.status = 400
          /\ ( /\ last'.user.role \in {"admin", "branch_owner"}
               /\ ~TargetExists(last') ) =>
                last'.status = 404
          /\ ( /\ TargetExists(last')
               /\ last'.user /= Anonymous
               /\ ~MayWrite(last'.user, TargetOwner(last')) ) =>
                last'.status = 403 ]_vars

(***************************************************************************)
(* C27: a create_copy that supplies a book_id does not go through the ISBN *)
(* lookup: whether or not an isbn is supplied too, and whether or not the  *)
(* catalogs know it, no book is inserted and the request does not end with *)
(* 400; for an authorized actor and an existing branch it ends with 200    *)
(* and the new copy is linked to the supplied book.                        *)
(***************************************************************************)
C27_BookIdSkipsLookup ==
    [][ (last'.op = "create_copy" /\ Truthy(last'.args.book_id)) =>
          /\ books' = books
          /\ last'.status /= 400
          /\ ( /\ last'.args.branch_id \in DOMAIN branches
               /\ MayWrite(last'.user, branches[last'.args.branch_id].owner_id) ) =>
                /\ last'.status = 200
                /\ DOMAIN copies' = DOMAIN copies \cup {last'.result[1]}
                /\ last'.result[1] \notin DOMAIN copies
                /\ copies'[last'.result[1]].book_id = last'.args.book_id ]_vars

\* The branch's owner adds a copy of book k1 and names an ISBN that no book
\* has: the copy is created and k1 is still the only book.
C27_Witness ==
    /\ last.op = "create_copy"
    /\ last.status = 200
    /\ last.user.role = "branch_owner"
    /\ last.args.book_id = "k1"
    /\ last.args.isbn = <<"9", "7">>
    /\ DOMAIN books = {"k1"}
    /\ copies[last.result[1]].book_id = "k1"

(***************************************************************************)
(* C28: the stats of get_branch satisfy available + on_loan = total_copies *)
(* with neither count negative; total_copies is the number of the branch's *)
(* copies, available the number of them with no loan having null           *)
(* returned_at, on_loan the number of them with such a loan, a copy with   *)
(* several counted once.                                                   *)
(***************************************************************************)
C28_BranchStatsAddUp ==
    (last.op = "get_branch" /\ last.status = 200) =>
        LET stats == last.result[1].stats
            mine == {c \in DOMAIN copies : copies[c].branch_id = last.args.branch_id}
        IN  /\ stats.available + stats.on_loan = stats.total_copies
            /\ stats.available >= 0
            /\ stats.on_loan >= 0
            /\ stats.total_copies = Cardinality(mine)
            /\ stats.available = Cardinality({c \in mine : OpenAt(c) = {}})
            /\ stats.on_loan = Cardinality({c \in mine : OpenAt(c) /= {}})

\* A branch of two copies, one of them with two open loans: one available,
\* one on loan.
C28_Witness ==
    /\ last.op = "get_branch"
    /\ last.status = 200
    /\ last.result[1].stats = [total_copies |-> 2, available |-> 1, on_loan |-> 1]
    /\ \E c \in DOMAIN copies :
          /\ copies[c].branch_id = last.args.branch_id
          /\ Cardinality(OpenAt(c)) = 2

====
